---- MODULE Spec2Model ----
(***************************************************************************)
(* LikeBike backend: the reward ledger, the leveling rule and the          *)
(* submit/verify workflows of bike-activity logs and course                *)
(* recommendations, modelled from the Flask route handlers.                *)
(*                                                                         *)
(* One action is one HTTP request handled to completion (the spec's        *)
(* "run one at a time" reading).  Tables are sequences whose index is the  *)
(* row id (SERIAL primary keys).  Dates are day numbers; day 0 is a        *)
(* Monday, so date_trunc('week', d) is d - (d % 7).                        *)
(***************************************************************************)
EXTENDS Integers, Sequences, FiniteSets, TLC

VARIABLES
    users,                  \* users table: id -> [experience_points, points, level]
    rewards,                \* rewards table (the ledger), in insertion order
    user_quiz_attempts,     \* user_quiz_attempts table, in insertion order
    bike_usage_logs,        \* bike_usage_logs table, index = id
    course_recommendations, \* course_recommendations table, index = id
    community_posts,        \* community_posts table, index = id
    today,                  \* CURRENT_DATE of the database server, a day number
    manual,                 \* history: net change of experience_points made by
                            \* PUT /users/score and PUT /users/level, per user
    response,               \* the last request handled and the answer it got
    post_likes,             \* post_likes table, in insertion order
    storage,                \* number of objects put into the object storage
    now,                    \* datetime.utcnow() of the application server, in days
    tokens,                 \* the JWTs the server has signed (their payloads)
    inflight                \* requests whose handler is between two statements

vars == <<users, rewards, user_quiz_attempts, bike_usage_logs,
          course_recommendations, community_posts, today, manual, response,
          post_likes, storage, now, tokens, inflight>>

\* what the handlers of this module never touch unless they say so
other == <<post_likes, now, tokens, inflight>>

----------------------------------------------------------------------------
(* Bounds of the model *)

MaxAttempts == 3    \* rows of user_quiz_attempts
MaxLogs == 2        \* rows of bike_usage_logs
MaxRecs == 3        \* rows of course_recommendations
MaxPosts == 1       \* rows of community_posts
MaxComments == 1    \* comments on a post
MaxRewards == 2     \* rows of rewards
MaxRows == 3        \* rows of all tables together, when every operation
                    \* is explored at once (specification Spec)
MaxDay == 8         \* last day number the clock reaches
MaxExp == 10        \* largest experience_points a manual adjustment leaves
MaxDebt == 10       \* most negative experience_points it leaves, negated
MaxObjects == 5     \* objects in the object storage
MaxInflight == 2    \* requests between two statements at a time
MaxNow == 8         \* last day the application clock reaches
MaxTokens == 2      \* tokens signed
MaxAuthRows == 1    \* rows written where the decorators are explored
MaxLikes == 2       \* likes_count, either side of 0, when a toggle_like starts
MaxNameLen == 3     \* pieces of a filename
MaxRaceRows == 2    \* submissions where verify requests race

----------------------------------------------------------------------------
(* Program constants *)

QuizExp == 10            \* quizzes.py: exp = 10
BikePoints == 10         \* bike_logs.py: points = 10
PostPoints == 2          \* community.py create_post: points = 2
PostExp == 1             \* community.py create_post: exp = 1
CommentPoints == 1       \* community.py create_comment: points = 1
CommentExp == 1          \* community.py create_comment: exp = 1
DailyBikeLogLimit == 1   \* bike_logs.py: result["count"] >= 1
WeeklyRecLimit == 2      \* recommendations.py: result["count"] >= 2
DaysPerWeek == 7         \* date_trunc('week', CURRENT_DATE)
JWT_EXPIRATION_DAYS == 7 \* auth.py: JWT_EXPIRATION_HOURS = 24 * 7

UserIds == {1, 2}                \* rows of the users table
AdminIds == {2}                  \* users whose token passes admin_required
QuizIds == {1, 2}                \* rows of the quizzes table
MissingId == 9                   \* an id the quizzes table has no row for
Answers == {"", "A", "B"}        \* request bodies of an attempt ("" = no answer)

\* quizzes.correct_answer
correct_answer(q) == IF q = 1 THEN "A" ELSE "B"

\* user_levels: the threshold table (level, required_exp)
user_levels ==
    { [level |-> 1, required_exp |-> 0],
      [level |-> 2, required_exp |-> 10],
      [level |-> 3, required_exp |-> 20] }

\* the column defaults of a new users row (schema.sql)
user_defaults == [experience_points |-> 0, points |-> 0, level |-> 1]

\* the default of course_recommendations.status (schema.sql); the INSERT of
\* create_course_recommendation does not name the column
rec_default_status == "pending"

----------------------------------------------------------------------------
(* Helpers *)

RECURSIVE SumExp(_)
SumExp(s) == IF s = <<>> THEN 0
             ELSE Head(s).experience_points + SumExp(Tail(s))

\* rows of a table (a sequence) satisfying a predicate, in order
RowsOf(s, P(_)) == SelectSeq(s, P)

\* the rewards rows of user u
LedgerOf(u) == LET mine(r) == r.user_id = u IN SelectSeq(rewards, mine)

\* the rewards rows of user u with a given source_type
LedgerOfType(u, t) ==
    LET mine(r) == r.user_id = u /\ r.source_type = t IN SelectSeq(rewards, mine)

\* date_trunc('week', d)
WeekStart(d) == d - (d % DaysPerWeek)

\* SELECT level FROM user_levels WHERE required_exp <= exp
\* ORDER BY level DESC LIMIT 1; 1 when no row qualifies
LevelFor(exp) ==
    LET ok == { l \in user_levels : l.required_exp <= exp }
    IN IF ok = {} THEN 1
       ELSE (CHOOSE l \in ok : \A m \in ok : m.level <= l.level).level

\* GREATEST(a, b)
GREATEST(a, b) == IF a >= b THEN a ELSE b

\* the access_token field of an answer that carries no token
NoToken == [user_id |-> 0, username |-> "", is_admin |-> FALSE, exp |-> 0]

\* the values a handler passes to make_response: None, a str, a dict, a list
PyNone == [kind |-> "none", items |-> <<>>]
PyStr == [kind |-> "str", items |-> <<>>]
PyDict == [kind |-> "dict", items |-> <<>>]
PyList(items) == [kind |-> "list", items |-> items]

\* the lists explored: none, one or two rows
PyValues == {PyNone, PyStr, PyDict, PyList(<<>>), PyList(<<PyDict>>),
             PyList(<<PyDict, PyDict>>)}

\* HTTPStatus(code).phrase
HTTPStatusPhrase(code) ==
    CASE code = 200 -> "OK"
      [] code = 201 -> "Created"
      [] code = 204 -> "No Content"
      [] code = 400 -> "Bad Request"
      [] code = 401 -> "Unauthorized"
      [] code = 403 -> "Forbidden"
      [] code = 404 -> "Not Found"
      [] code = 500 -> "Internal Server Error"
      [] OTHER -> ""

make_response_unwrapped(data, code) ==
    [ code |-> code, message |-> HTTPStatusPhrase(code), data |-> data ]

\* make_response(data, code) of utils/responses.py: the JSON body
make_response(data, code) ==
    [ code |-> code, message |-> HTTPStatusPhrase(code),
      data |-> IF data = PyNone THEN PyList(<<>>)
               ELSE IF data.kind = "list" THEN data
               ELSE PyList(<<data>>) ]

\* the body field of an answer that is not built by make_response
NoEnvelope == [code |-> 0, message |-> "", data |-> PyNone]

\* the answer of a handler that returns make_response(<dict>, code): the
\* status code, the fields of the dict that the handlers set and the body,
\* with the endpoint that answered
Resp(op, code, error) ==
    [ op |-> op, code |-> code, error |-> error,
      is_correct |-> FALSE, reward_given |-> FALSE, experience_earned |-> 0,
      status |-> "", points_awarded |-> 0, access_token |-> NoToken,
      liked |-> FALSE, likes_count |-> 0, user_id |-> 0,
      mimetype |-> "application/json", body |-> make_response(PyDict, code) ]

\* the answer Flask gives for a view function that raised
Raised(op) ==
    [ Resp(op, 500, "internal server error") EXCEPT
        !.mimetype = "text/html", !.body = NoEnvelope ]

\* the users who submit where one submitting user is explored
Actors == {1}

\* a row of the rewards table
RewardRow(u, type, id, points, exp, reason) ==
    [ user_id |-> u, source_type |-> type, source_id |-> id, points |-> points,
      experience_points |-> exp, reward_reason |-> reason ]

\* rows inserted so far into the submission tables

Rows == Len(user_quiz_attempts) + Len(bike_usage_logs)
        + Len(course_recommendations) + Len(community_posts)

\* the part of the state space that is explored
Bounded ==
    /\ Len(user_quiz_attempts) <= MaxAttempts
    /\ Len(bike_usage_logs) <= MaxLogs
    /\ Len(course_recommendations) <= MaxRecs
    /\ Len(community_posts) <= MaxPosts
    /\ \A i \in 1..Len(community_posts) :
           community_posts[i].comments_count <= MaxComments
    /\ Len(rewards) <= MaxRewards
    /\ storage <= MaxObjects

\* the experience_points values a manual adjustment is explored up to
ExpBounded ==
    \A u \in UserIds : /\ users[u].experience_points <= MaxExp
                       /\ users[u].experience_points >= -MaxDebt

----------------------------------------------------------------------------
Init ==
    /\ users = [u \in UserIds |-> user_defaults]
    /\ rewards = <<>>
    /\ user_quiz_attempts = <<>>
    /\ bike_usage_logs = <<>>
    /\ course_recommendations = <<>>
    /\ community_posts = <<>>
    /\ today = DaysPerWeek - 1
    /\ manual = [u \in UserIds |-> 0]
    /\ response = Resp("none", 0, "")
    /\ post_likes = <<>>
    /\ storage = 0
    /\ now = 0
    /\ tokens = {}
    /\ inflight = {}

----------------------------------------------------------------------------
(* POST /quizzes/<quiz_id>/attempt *)

\* a first-correct check that looks at no earlier attempt
already_correct_never(u, q) == FALSE

\* SELECT id FROM user_quiz_attempts
\* WHERE user_id = u AND quiz_id = q AND is_correct = true
already_correct(u, q) ==
    \E i \in 1..Len(user_quiz_attempts) :
        /\ user_quiz_attempts[i].user_id = u
        /\ user_quiz_attempts[i].quiz_id = q
        /\ user_quiz_attempts[i].is_correct

\* a ledger row that records the 5 points of the handler's comment instead
\* of the amount credited
quiz_reward_row_stale(u, q, exp) == RewardRow(u, "quiz", q, 0, 5, "quiz")

\* the ledger row of a quiz reward; reward_reason "quiz" stands for
\* the source's Korean text ("bicycle safety quiz")
quiz_reward_row(u, q, exp) == RewardRow(u, "quiz", q, 0, exp, "quiz")

attempt_quiz(u, q, answer) ==
    IF answer = ""
    THEN /\ response' = Resp("attempt_quiz", 400, "answer required")
         /\ UNCHANGED <<users, rewards, user_quiz_attempts, bike_usage_logs,
                        course_recommendations, community_posts, today, storage, other, manual>>
    ELSE IF q \notin QuizIds
    THEN /\ response' = Resp("attempt_quiz", 404, "quiz not found")
         /\ UNCHANGED <<users, rewards, user_quiz_attempts, bike_usage_logs,
                        course_recommendations, community_posts, today, storage, other, manual>>
    ELSE LET is_correct == answer = correct_answer(q)
             reward_given == is_correct /\ ~already_correct(u, q)
             exp == QuizExp
         IN /\ user_quiz_attempts' = Append(user_quiz_attempts,
                   [user_id |-> u, quiz_id |-> q, is_correct |-> is_correct])
            /\ IF reward_given
               THEN /\ users' = [users EXCEPT ![u].experience_points = @ + exp]
                    /\ rewards' = Append(rewards, quiz_reward_row(u, q, exp))
                    /\ response' = [Resp("attempt_quiz", 200, "") EXCEPT
                           !.is_correct = is_correct, !.reward_given = TRUE,
                           !.experience_earned = exp]
               ELSE /\ UNCHANGED <<users, rewards>>
                    /\ response' = [Resp("attempt_quiz", 200, "") EXCEPT
                           !.is_correct = is_correct]
            /\ UNCHANGED <<bike_usage_logs, course_recommendations,
                           community_posts, today, storage, other, manual>>

----------------------------------------------------------------------------
(* POST /users/bike-logs *)

\* what the multipart form of a submission carries
Forms == {"complete", "no_text", "no_photo"}

\* a daily count that skips the logs an administrator has processed
bike_logs_today_pending(u) ==
    Cardinality({ i \in 1..Len(bike_usage_logs) :
        /\ bike_usage_logs[i].user_id = u
        /\ bike_usage_logs[i].created_at = today
        /\ bike_usage_logs[i].verification_status = "pending" })

\* SELECT COUNT(*) FROM bike_usage_logs
\* WHERE user_id = u AND created_at::date = CURRENT_DATE
bike_logs_today(u) ==
    Cardinality({ i \in 1..Len(bike_usage_logs) :
        /\ bike_usage_logs[i].user_id = u
        /\ bike_usage_logs[i].created_at = today })

\* up1, up2: whether upload_file_to_ncp returns a url (TRUE: the object is in
\* the bucket) or an error (nothing was put)
create_bike_log(u, form, up1, up2) ==
    LET id == Len(bike_usage_logs) + 1
        fail(code, error, uploaded) ==
            /\ response' = Resp("create_bike_log", code, error)
            /\ storage' = storage + uploaded
            /\ UNCHANGED <<users, rewards, user_quiz_attempts, bike_usage_logs,
                           course_recommendations, community_posts, today,
                           manual, other>>
    IN IF form = "no_text" THEN fail(400, "description required", 0)
       ELSE IF form = "no_photo"
       THEN fail(400, "bike_photo and safety_gear_photo required", 0)
       ELSE IF bike_logs_today(u) >= DailyBikeLogLimit
       THEN fail(400, "daily bike log limit reached", 0)
       ELSE IF ~up1 THEN fail(500, "upload failed", 0)
       ELSE IF ~up2 THEN fail(500, "upload failed", 1)
       ELSE IF u \notin DOMAIN users THEN fail(404, "user not found", 2)
       ELSE /\ bike_usage_logs' = Append(bike_usage_logs,
                   [ user_id |-> u, verification_status |-> "pending",
                     points_awarded |-> 0, verified_by_admin_id |-> 0,
                     created_at |-> today ])
            /\ response' = [Resp("create_bike_log", 201, "") EXCEPT
                   !.status = "pending"]
            /\ storage' = storage + 2
            /\ UNCHANGED <<users, rewards, user_quiz_attempts,
                           course_recommendations, community_posts, today,
                           manual, other>>

----------------------------------------------------------------------------
(* GET /users/bike-logs/<log_id> *)

get_bike_log_detail_unowned(u, log_id) ==
    /\ response' =
           IF log_id \notin 1..Len(bike_usage_logs)
           THEN Resp("get_bike_log_detail", 404, "bike log not found")
           ELSE [ Resp("get_bike_log_detail", 200, "") EXCEPT
                    !.user_id = bike_usage_logs[log_id].user_id,
                    !.status = bike_usage_logs[log_id].verification_status,
                    !.points_awarded = bike_usage_logs[log_id].points_awarded ]
    /\ UNCHANGED <<users, rewards, user_quiz_attempts, bike_usage_logs,
                   course_recommendations, community_posts, today, manual,
                   storage, other>>

\* the row with id log_id, for the user u of the token
get_bike_log_detail(u, log_id) ==
    /\ response' =
           IF log_id \notin 1..Len(bike_usage_logs)
           THEN Resp("get_bike_log_detail", 404, "bike log not found")
           ELSE IF bike_usage_logs[log_id].user_id # u
           THEN Resp("get_bike_log_detail", 403, "access denied")
           ELSE [ Resp("get_bike_log_detail", 200, "") EXCEPT
                    !.user_id = bike_usage_logs[log_id].user_id,
                    !.status = bike_usage_logs[log_id].verification_status,
                    !.points_awarded = bike_usage_logs[log_id].points_awarded ]
    /\ UNCHANGED <<users, rewards, user_quiz_attempts, bike_usage_logs,
                   course_recommendations, community_posts, today, manual,
                   storage, other>>

----------------------------------------------------------------------------
(* POST /admin/bike-logs/<log_id>/verify *)

\* the status field of a verify request ("approved" is not a status the
\* handlers accept)
Statuses == {"verified", "rejected", "approved"}

\* a ledger row with the points and experience_points columns exchanged
bike_reward_row_swapped(u, log_id, points) ==
    RewardRow(u, "bike_usage", log_id, points, 0, "bike activity")

\* the ledger row of a bike-log verification; "bike activity" stands for
\* the source's Korean reward_reason
bike_reward_row(u, log_id, points) ==
    RewardRow(u, "bike_usage", log_id, 0, points, "bike activity")

\* a check that stops only a second approval
bike_log_processed_verified(log_id) ==
    bike_usage_logs[log_id].verification_status = "verified"

\* log["verification_status"] != "pending"
bike_log_processed(log_id) ==
    bike_usage_logs[log_id].verification_status # "pending"

verify_bike_log(admin_id, log_id, status) ==
    LET points == BikePoints
        fail(code, error) ==
            /\ response' = Resp("verify_bike_log", code, error)
            /\ UNCHANGED <<users, rewards, user_quiz_attempts, bike_usage_logs,
                           course_recommendations, community_posts, today, storage, other, manual>>
    IN IF status \notin {"verified", "rejected"}
       THEN fail(400, "status must be 'verified' or 'rejected'")
       ELSE IF log_id \notin 1..Len(bike_usage_logs)
       THEN fail(404, "bike log not found")
       ELSE IF bike_log_processed(log_id)
       THEN fail(400, "bike log already processed")
       ELSE LET user_id == bike_usage_logs[log_id].user_id
            IN /\ bike_usage_logs' = [bike_usage_logs EXCEPT
                       ![log_id].verification_status = status,
                       ![log_id].verified_by_admin_id = admin_id,
                       ![log_id].points_awarded = points]
               /\ IF status = "verified" /\ points > 0
                  THEN /\ users' = [users EXCEPT
                              ![user_id].experience_points = @ + points]
                       /\ rewards' = Append(rewards,
                              bike_reward_row(user_id, log_id, points))
                  ELSE UNCHANGED <<users, rewards>>
               /\ response' = [Resp("verify_bike_log", 200, "")
                       EXCEPT !.status = status, !.points_awarded = points]
               /\ UNCHANGED <<user_quiz_attempts, course_recommendations,
                              community_posts, today, storage, other, manual>>

----------------------------------------------------------------------------
(* POST /users/course-recommendations *)

\* a weekly count that includes the rejected submissions
recs_this_week_all(u) ==
    Cardinality({ i \in 1..Len(course_recommendations) :
        /\ course_recommendations[i].user_id = u
        /\ course_recommendations[i].created_at >= WeekStart(today) })

\* SELECT COUNT(*) FROM course_recommendations WHERE user_id = u
\* AND created_at >= date_trunc('week', CURRENT_DATE) AND status != 'rejected'
recs_this_week(u) ==
    Cardinality({ i \in 1..Len(course_recommendations) :
        /\ course_recommendations[i].user_id = u
        /\ course_recommendations[i].created_at >= WeekStart(today)
        /\ course_recommendations[i].status # "rejected" })

create_course_recommendation(u, form, up) ==
    LET id == Len(course_recommendations) + 1
        fail(code, error) ==
            /\ response' = Resp("create_course_recommendation", code, error)
            /\ UNCHANGED <<users, rewards, user_quiz_attempts, bike_usage_logs,
                           course_recommendations, community_posts, today, storage, other, manual>>
    IN IF form = "no_text" THEN fail(400, "location_name and review required")
       ELSE IF form = "no_photo" THEN fail(400, "photo required")
       ELSE IF recs_this_week(u) >= WeeklyRecLimit
       THEN fail(400, "weekly course recommendation limit reached")
       ELSE IF ~up THEN fail(500, "photo upload failed")
       ELSE /\ course_recommendations' = Append(course_recommendations,
                   [ user_id |-> u, status |-> rec_default_status,
                     points_awarded |-> 0, reviewed_by_admin_id |-> 0,
                     created_at |-> today ])
            /\ response' = [Resp("create_course_recommendation", 201, "")
                   EXCEPT !.status = rec_default_status]
            /\ storage' = storage + 1
            /\ UNCHANGED <<users, rewards, user_quiz_attempts, bike_usage_logs,
                           community_posts, today, manual, other>>

----------------------------------------------------------------------------
(* upload_file_to_ncp of routes/storage.py and of routes/bike_logs.py.  A   *)
(* filename is a sequence of pieces: words, dots and extensions.            *)

\* "sajin" stands for a word of non-ASCII letters
Pieces == {"photo", "sajin", ".", "jpg", "JPG"}
NonAscii == {"sajin"}

ALLOWED_EXTENSIONS == {"png", "jpg", "jpeg", "gif", "bmp", "webp"}
MAX_FILE_SIZE == 10485760

\* every filename of at most MaxNameLen pieces
FileNames == UNION {[1..n -> Pieces] : n \in 0..MaxNameLen}

\* sizes at, and one byte past, the limit
FileSizes == {MAX_FILE_SIZE, MAX_FILE_SIZE + 1}

\* what s3_client.upload_fileobj does
Backends == {"stored", "client_error", "exception"}

\* str.lower of a piece
lower(piece) == IF piece = "JPG" THEN "jpg" ELSE piece

\* the position of the last dot of a filename, 0 when it has none
last_dot(filename) ==
    LET dots == {i \in 1..Len(filename) : filename[i] = "."}
    IN IF dots = {} THEN 0 ELSE CHOOSE i \in dots : \A j \in dots : j <= i

\* filename.rsplit('.', 1)[1].lower(), for a filename with a dot
extension(filename) ==
    LET tail == SubSeq(filename, last_dot(filename) + 1, Len(filename))
    IN [i \in 1..Len(tail) |-> lower(tail[i])]

\* allowed_file(filename)
allowed_file(filename) ==
    /\ last_dot(filename) > 0
    /\ Len(extension(filename)) = 1
    /\ extension(filename)[1] \in ALLOWED_EXTENSIONS

\* werkzeug's secure_filename: the non-ASCII letters are dropped, then the
\* dots at either end are stripped
secure_filename(filename) ==
    LET ascii == SelectSeq(filename, LAMBDA piece : piece \notin NonAscii)
        kept == {i \in 1..Len(ascii) : ascii[i] # "."}
    IN IF kept = {} THEN <<>>
       ELSE SubSeq(ascii, CHOOSE i \in kept : \A j \in kept : i <= j,
                          CHOOSE i \in kept : \A j \in kept : j <= i)

\* what the adapter gives back: (url, None), (None, error) with the check
\* that failed in place of the message, or an exception that leaves it
Uploaded == [url |-> TRUE, error |-> "", raised |-> FALSE]
Refused(check) == [url |-> FALSE, error |-> check, raised |-> FALSE]
IndexError == [url |-> FALSE, error |-> "", raised |-> TRUE]

\* upload_file_to_ncp(file, folder_name) of routes/storage.py
upload_file_to_ncp(file, backend) ==
    IF file.filename = <<>> THEN Refused("filename")
    ELSE IF ~allowed_file(file.filename) THEN Refused("extension")
    ELSE IF file.size > MAX_FILE_SIZE THEN Refused("size")
    ELSE IF last_dot(secure_filename(file.filename)) = 0 THEN IndexError
    ELSE IF backend = "stored" THEN Uploaded
    ELSE Refused("backend")

\* upload_file_to_ncp(file, folder_name) of routes/bike_logs.py, which
\* looks at s3_client first
upload_file_to_ncp_bike_logs(configured, file, backend) ==
    IF ~configured THEN Refused("configuration")
    ELSE upload_file_to_ncp(file, backend)

\* the files of a request
Files == [filename : FileNames, size : FileSizes]

\* the photos sent where a handler that writes rows calls the adapter
Photos ==
    [filename : {<<>>, <<"photo", ".", "jpg">>, <<"jpg", ".", "photo">>,
                 <<".", "jpg">>},
     size : FileSizes]

\* the requests to POST /storage/upload: one to a server without storage
\* settings, one without a file part, and the ones with a file
UploadRequests ==
    LET any == CHOOSE file \in Photos : TRUE
    IN {[configured |-> FALSE, attached |-> TRUE, file |-> any,
         backend |-> "stored"],
        [configured |-> TRUE, attached |-> FALSE, file |-> any,
         backend |-> "stored"]}
       \cup [configured : {TRUE}, attached : {TRUE}, file : Files,
             backend : Backends]

\* POST /storage/upload
upload_file(configured, attached, file, backend) ==
    LET uploaded == upload_file_to_ncp(file, backend)
    IN /\ response' =
              IF ~configured THEN Resp("upload_file", 500, "not configured")
              ELSE IF ~attached THEN Resp("upload_file", 400, "no file")
              ELSE IF uploaded.raised THEN Raised("upload_file")
              ELSE IF uploaded.error # ""
              THEN Resp("upload_file", 400, uploaded.error)
              ELSE Resp("upload_file", 200, "")
       /\ storage' = IF configured /\ attached /\ uploaded.url
                     THEN storage + 1 ELSE storage
       /\ UNCHANGED <<users, rewards, user_quiz_attempts, bike_usage_logs,
                      course_recommendations, community_posts, today, manual,
                      other>>

\* POST /users/bike-logs with a complete form and the two photos given
create_bike_log_photos(u, configured, bike_photo, gear_photo, b1, b2) ==
    LET first == upload_file_to_ncp_bike_logs(configured, bike_photo, b1)
        second == upload_file_to_ncp_bike_logs(configured, gear_photo, b2)
        raises == \/ first.raised
                  \/ first.url /\ second.raised
    IN IF bike_logs_today(u) < DailyBikeLogLimit /\ raises
       THEN /\ response' = Raised("create_bike_log")
            /\ storage' = IF first.url THEN storage + 1 ELSE storage
            /\ UNCHANGED <<users, rewards, user_quiz_attempts,
                           bike_usage_logs, course_recommendations,
                           community_posts, today, manual, other>>
       ELSE create_bike_log(u, "complete", first.url, second.url)

\* POST /users/course-recommendations with a complete form and the photo
\* given
create_course_recommendation_photo(u, photo, backend) ==
    LET uploaded == upload_file_to_ncp(photo, backend)
    IN IF recs_this_week(u) < WeeklyRecLimit /\ uploaded.raised
       THEN /\ response' = Raised("create_course_recommendation")
            /\ UNCHANGED <<users, rewards, user_quiz_attempts,
                           bike_usage_logs, course_recommendations,
                           community_posts, today, manual, storage, other>>
       ELSE create_course_recommendation(u, "complete", uploaded.url)

----------------------------------------------------------------------------
(* POST /admin/course-recommendations/<rec_id>/verify *)

\* the points field of a verify request (0 is also the default when absent)
PointsInputs == {-10, 0, 10}

\* the ledger row of an approved recommendation; "course recommendation"
\* stands for the source's Korean reward_reason
rec_reward_row(u, rec_id, points) ==
    RewardRow(u, "course_recommendation", rec_id, 0, points,
              "course recommendation")

\* points_awarded stored whatever the status, as verify_bike_log does
rec_points_awarded_always(status, points) == points

\* the points_awarded the UPDATE stores
rec_points_awarded(status, points) == IF status = "verified" THEN points ELSE 0

\* rec["status"] != "pending"
rec_processed(rec_id) == course_recommendations[rec_id].status # "pending"

verify_course_recommendation(admin_id, rec_id, status, points) ==
    LET fail(code, error) ==
            /\ response' = Resp("verify_course_recommendation", code, error)
            /\ UNCHANGED <<users, rewards, user_quiz_attempts, bike_usage_logs,
                           course_recommendations, community_posts, today, storage, other, manual>>
    IN IF status \notin {"verified", "rejected"}
       THEN fail(400, "status must be 'verified' or 'rejected'")
       ELSE IF status = "verified" /\ points <= 0
       THEN fail(400, "points must be greater than 0")
       ELSE IF rec_id \notin 1..Len(course_recommendations)
       THEN fail(404, "course recommendation not found")
       ELSE IF rec_processed(rec_id)
       THEN fail(400, "course recommendation already processed")
       ELSE LET user_id == course_recommendations[rec_id].user_id
            IN /\ course_recommendations' = [course_recommendations EXCEPT
                       ![rec_id].status = status,
                       ![rec_id].points_awarded = rec_points_awarded(status, points),
                       ![rec_id].reviewed_by_admin_id = admin_id]
               /\ IF status = "verified" /\ points > 0
                  THEN /\ users' = [users EXCEPT
                              ![user_id].experience_points = @ + points]
                       /\ rewards' = Append(rewards,
                              rec_reward_row(user_id, rec_id, points))
                  ELSE UNCHANGED <<users, rewards>>
               /\ response' = [Resp("verify_course_recommendation", 200, "")
                       EXCEPT !.status = status,
                              !.points_awarded = rec_points_awarded(status, points)]
               /\ UNCHANGED <<user_quiz_attempts, bike_usage_logs,
                              community_posts, today, storage, other, manual>>

----------------------------------------------------------------------------
(* POST /community/posts *)

\* the ledger row of a post; "post created" stands for the source's Korean
\* reward_reason
post_reward_row(u, post_id, points, exp) ==
    RewardRow(u, "community_post", post_id, points, exp, "post created")

\* valid: the body carries both title and content
create_post(u, valid) ==
    IF ~valid
    THEN /\ response' = Resp("create_post", 400, "title, content required")
         /\ UNCHANGED <<users, rewards, user_quiz_attempts, bike_usage_logs,
                        course_recommendations, community_posts, today, storage, other, manual>>
    ELSE LET id == Len(community_posts) + 1
             points == PostPoints
             exp == PostExp
         IN /\ community_posts' = Append(community_posts,
                   [user_id |-> u, comments_count |-> 0, likes_count |-> 0])
            /\ users' = [users EXCEPT ![u].points = @ + points,
                                      ![u].experience_points = @ + exp]
            /\ rewards' = Append(rewards, post_reward_row(u, id, points, exp))
            /\ response' = [Resp("create_post", 201, "") EXCEPT
                   !.experience_earned = exp]
            /\ UNCHANGED <<user_quiz_attempts, bike_usage_logs,
                           course_recommendations, today, storage, other, manual>>

----------------------------------------------------------------------------
(* POST /community/posts/<post_id>/comments *)

\* valid: the body carries content
create_comment(u, post_id, valid) ==
    IF ~valid
    THEN /\ response' = Resp("create_comment", 400, "content required")
         /\ UNCHANGED <<users, rewards, user_quiz_attempts, bike_usage_logs,
                        course_recommendations, community_posts, today, storage, other, manual>>
    ELSE IF post_id \notin 1..Len(community_posts)
    THEN /\ response' = Resp("create_comment", 404, "post not found")
         /\ UNCHANGED <<users, rewards, user_quiz_attempts, bike_usage_logs,
                        course_recommendations, community_posts, today, storage, other, manual>>
    ELSE LET points == CommentPoints
             exp == CommentExp
         IN /\ community_posts' = [community_posts EXCEPT
                   ![post_id].comments_count = @ + 1]
            /\ users' = [users EXCEPT ![u].points = @ + points,
                                      ![u].experience_points = @ + exp]
            /\ response' = Resp("create_comment", 201, "")
            /\ UNCHANGED <<rewards, user_quiz_attempts, bike_usage_logs,
                           course_recommendations, today, storage, other, manual>>

----------------------------------------------------------------------------
(* POST /community/posts/<post_id>/like *)

\* SELECT id FROM post_likes WHERE post_id = %s AND user_id = %s
existing_like(likes, u, p) ==
    {i \in DOMAIN likes : likes[i].post_id = p /\ likes[i].user_id = u}

\* DELETE FROM post_likes WHERE post_id = %s AND user_id = %s
delete_like(likes, u, p) ==
    SelectSeq(likes, LAMBDA r : ~(r.post_id = p /\ r.user_id = u))

\* UPDATE community_posts SET likes_count = likes_count + d WHERE id = %s
count_likes(posts, p, d) == [posts EXCEPT ![p].likes_count = @ + d]

\* UNIQUE (post_id, user_id) of the post_likes table
post_likes_unique(likes) ==
    \A i, j \in DOMAIN likes :
        (likes[i].post_id = likes[j].post_id
            /\ likes[i].user_id = likes[j].user_id) => i = j

insert_like_unconstrained(likes, u, p) ==
    [ ok |-> TRUE, post_likes |-> Append(likes, [post_id |-> p, user_id |-> u]) ]

\* INSERT INTO post_likes (post_id, user_id): the table with the new row, or
\* the table as it was when the row breaks the constraint (the statement
\* raises)
insert_like(likes, u, p) ==
    LET inserted == Append(likes, [post_id |-> p, user_id |-> u])
    IN IF post_likes_unique(inserted)
       THEN [ ok |-> TRUE, post_likes |-> inserted ]
       ELSE [ ok |-> FALSE, post_likes |-> likes ]

like_toggled_keeping_count(likes, posts, u, p) ==
    IF existing_like(likes, u, p) # {}
    THEN [ post_likes |-> delete_like(likes, u, p), community_posts |-> posts,
           liked |-> FALSE, likes_count |-> posts[p].likes_count ]
    ELSE [ post_likes |-> Append(likes, [post_id |-> p, user_id |-> u]),
           community_posts |-> count_likes(posts, p, 1),
           liked |-> TRUE, likes_count |-> posts[p].likes_count + 1 ]

\* the two tables after the statements of toggle_like, and the liked and
\* likes_count fields of its answer
like_toggled(likes, posts, u, p) ==
    IF existing_like(likes, u, p) # {}
    THEN LET counted == count_likes(posts, p, -1)
         IN [ post_likes |-> delete_like(likes, u, p),
              community_posts |-> counted,
              liked |-> FALSE, likes_count |-> counted[p].likes_count ]
    ELSE LET counted == count_likes(posts, p, 1)
         IN [ post_likes |-> insert_like(likes, u, p).post_likes,
              community_posts |-> counted,
              liked |-> TRUE, likes_count |-> counted[p].likes_count ]

\* post_id REFERENCES community_posts (id) of the post_likes join table
post_likes_references(likes, posts) ==
    \A i \in DOMAIN likes : likes[i].post_id \in DOMAIN posts

\* the statements of toggle_like for a post id that community_posts has no
\* row for: the DELETE, or the INSERT unless the table refuses the row; the
\* UPDATE finds no row
like_toggled_missing(likes, posts, u, p) ==
    LET inserted == Append(likes, [post_id |-> p, user_id |-> u])
    IN IF existing_like(likes, u, p) # {} THEN delete_like(likes, u, p)
       ELSE IF post_likes_references(inserted, posts) THEN inserted
       ELSE likes

toggle_like_unreferenced(u, p) ==
    /\ IF p \in DOMAIN community_posts
       THEN LET r == like_toggled(post_likes, community_posts, u, p)
            IN /\ post_likes' = r.post_likes
               /\ community_posts' = r.community_posts
               /\ response' = [Resp("toggle_like", 200, "") EXCEPT
                      !.liked = r.liked, !.likes_count = r.likes_count]
       ELSE /\ post_likes' = IF existing_like(post_likes, u, p) # {}
                             THEN delete_like(post_likes, u, p)
                             ELSE Append(post_likes,
                                         [post_id |-> p, user_id |-> u])
            /\ response' = Raised("toggle_like")
            /\ UNCHANGED community_posts
    /\ UNCHANGED <<users, rewards, user_quiz_attempts, bike_usage_logs,
                   course_recommendations, today, manual, storage, now,
                   tokens, inflight>>

\* the request of user u on post id p.  Without a row of community_posts
\* the handler raises: the INSERT when the table refuses the row, otherwise
\* cur.fetchone()["likes_count"] on None after the last SELECT
toggle_like(u, p) ==
    /\ IF p \in DOMAIN community_posts
       THEN LET r == like_toggled(post_likes, community_posts, u, p)
            IN /\ post_likes' = r.post_likes
               /\ community_posts' = r.community_posts
               /\ response' = [Resp("toggle_like", 200, "") EXCEPT
                      !.liked = r.liked, !.likes_count = r.likes_count]
       ELSE /\ post_likes' = like_toggled_missing(post_likes, community_posts,
                                                  u, p)
            /\ response' = Raised("toggle_like")
            /\ UNCHANGED community_posts
    /\ UNCHANGED <<users, rewards, user_quiz_attempts, bike_usage_logs,
                   course_recommendations, today, manual, storage, now,
                   tokens, inflight>>

----------------------------------------------------------------------------
(* DELETE /users/profile, DELETE /users/withdraw *)

\* ON DELETE CASCADE of the tables that reference users: the rows of a
\* table that user u does not own.  Where accounts are deleted no request
\* refers to a row by its id, so the rows left keep no id of their own.
cascade(rows, u) == SelectSeq(rows, LAMBDA r : r.user_id # u)

\* _remove_user for the user of the token, and the answer of the handler op
remove_user(op, u) ==
    IF u \notin DOMAIN users
    THEN /\ response' = Resp(op, 404, "user not found")
         /\ UNCHANGED <<users, rewards, user_quiz_attempts, bike_usage_logs,
                        course_recommendations, community_posts, today,
                        manual, storage, other>>
    ELSE /\ users' = [v \in DOMAIN users \ {u} |-> users[v]]
         /\ rewards' = cascade(rewards, u)
         /\ user_quiz_attempts' = cascade(user_quiz_attempts, u)
         /\ bike_usage_logs' = cascade(bike_usage_logs, u)
         /\ course_recommendations' = cascade(course_recommendations, u)
         /\ community_posts' = cascade(community_posts, u)
         /\ post_likes' = cascade(post_likes, u)
         /\ response' = [Resp(op, 204, "") EXCEPT
                !.body = make_response(PyNone, 204)]
         /\ UNCHANGED <<today, manual, storage, now, tokens, inflight>>

----------------------------------------------------------------------------
(* PUT /users/level *)

\* the experience_points field of the body of PUT /users/level and of
\* PUT /users/score: a change, positive or negative
LevelDeltas == {-10, 10}
ScoreDeltas == {-10, 10}

update_user_level(u, experience_points) ==
    IF u \notin DOMAIN users
    THEN /\ response' = Resp("update_user_level", 404, "user not found")
         /\ UNCHANGED <<users, rewards, user_quiz_attempts, bike_usage_logs,
                        course_recommendations, community_posts, today,
                        manual, storage, other>>
    ELSE
    LET new_exp == users[u].experience_points + experience_points
        new_level == LevelFor(new_exp)
    IN /\ users' = [users EXCEPT ![u].experience_points = new_exp,
                                 ![u].level = new_level]
       /\ manual' = [manual EXCEPT ![u] = @ + (new_exp - users[u].experience_points)]
       /\ response' = Resp("update_user_level", 200, "")
       /\ UNCHANGED <<rewards, user_quiz_attempts, bike_usage_logs,
                      course_recommendations, community_posts, today, storage, other>>

----------------------------------------------------------------------------
(* PUT /users/score *)

\* the ledger row of a positive score change; the request's reward_reason
\* is not modelled
score_reward_row(u, exp_change) ==
    RewardRow(u, "score_update", 0, 0, exp_change, "score update")

update_user_score(u, exp_change) ==
    IF u \notin DOMAIN users
    THEN /\ response' = Resp("update_user_score", 404, "User not found")
         /\ UNCHANGED <<users, rewards, user_quiz_attempts, bike_usage_logs,
                        course_recommendations, community_posts, today,
                        manual, storage, other>>
    ELSE
    LET updated_exp == GREATEST(0, users[u].experience_points + exp_change)
    IN /\ users' = [users EXCEPT ![u].experience_points = updated_exp]
       /\ manual' = [manual EXCEPT
              ![u] = @ + (updated_exp - users[u].experience_points)]
       /\ IF exp_change > 0
          THEN rewards' = Append(rewards, score_reward_row(u, exp_change))
          ELSE UNCHANGED rewards
       /\ response' = Resp("update_user_score", 200, "")
       /\ UNCHANGED <<user_quiz_attempts, bike_usage_logs,
                      course_recommendations, community_posts, today, storage, other>>

----------------------------------------------------------------------------
(* The database server's calendar moves on to the next day *)

NextDay ==
    /\ today < MaxDay
    /\ today' = today + 1
    /\ response' = Resp("none", 0, "")
    /\ UNCHANGED <<users, rewards, user_quiz_attempts, bike_usage_logs,
                   course_recommendations, community_posts, manual, storage, other>>

----------------------------------------------------------------------------
\* The requests of each endpoint, from the users in U; malformed ones too.
QuizRequest(U) ==
    \E u \in U, q \in QuizIds \cup {MissingId}, a \in Answers :
        attempt_quiz(u, q, a)

BikeSubmit(U) ==
    \E u \in U, f \in Forms, up1 \in BOOLEAN, up2 \in BOOLEAN :
        create_bike_log(u, f, up1, up2)

\* log ids: every row, and one id past the last row
BikeVerify ==
    \E a \in AdminIds, i \in 1..(Len(bike_usage_logs) + 1), s \in Statuses :
        verify_bike_log(a, i, s)

RecSubmit(U) ==
    \E u \in U, f \in Forms, up \in BOOLEAN :
        create_course_recommendation(u, f, up)

RecVerify ==
    \E a \in AdminIds, i \in 1..(Len(course_recommendations) + 1),
       s \in Statuses, p \in PointsInputs :
        verify_course_recommendation(a, i, s, p)

\* Every operation, one request at a time.  Here the requests are
\* well-formed and come from the users in Actors (an administrator verifies);
\* malformed requests and a second submitting user are explored per feature
\* in SpecQuiz, SpecBike and SpecRec.

InBudget == Bounded /\ Rows <= MaxRows

\* the operations that credit experience as a reward
RewardOps ==
    \/ \E u \in Actors, q \in QuizIds, a \in Answers \ {""} :
           attempt_quiz(u, q, a) /\ InBudget'
    \/ \E u \in Actors : create_bike_log(u, "complete", TRUE, TRUE) /\ InBudget'
    \/ \E a \in AdminIds, i \in 1..Len(bike_usage_logs),
          s \in {"verified", "rejected"} :
           verify_bike_log(a, i, s) /\ InBudget'
    \/ \E u \in Actors :
           create_course_recommendation(u, "complete", TRUE) /\ InBudget'
    \/ \E a \in AdminIds, i \in 1..Len(course_recommendations),
          s \in {"verified", "rejected"}, p \in {p \in PointsInputs : p > 0} :
           verify_course_recommendation(a, i, s, p) /\ InBudget'
    \/ \E u \in Actors : create_post(u, TRUE) /\ InBudget'
    \/ \E u \in Actors, i \in 1..Len(community_posts) :
           create_comment(u, i, TRUE) /\ InBudget'

Next ==
    \/ RewardOps
    \/ \E u \in Actors, d \in LevelDeltas :
           update_user_level(u, d) /\ InBudget' /\ ExpBounded'
    \/ \E u \in Actors, d \in ScoreDeltas :
           update_user_score(u, d) /\ InBudget' /\ ExpBounded'
    \/ NextDay

Spec == Init /\ [][Next]_vars

\* the rewarding operations alone, without the administrators' adjustments
NextRewards == RewardOps \/ NextDay

SpecRewards == Init /\ [][NextRewards]_vars

\* quiz attempts only
NextQuiz == QuizRequest(UserIds) /\ Bounded'

SpecQuiz == Init /\ [][NextQuiz]_vars

\* the bike-activity workflow only
NextBike ==
    \/ BikeSubmit(UserIds) /\ Bounded'
    \/ BikeVerify /\ Bounded'
    \/ NextDay

SpecBike == Init /\ [][NextBike]_vars

\* log ids: every row, and one id past the last row
BikeDetail ==
    \E u \in UserIds, i \in 1..(Len(bike_usage_logs) + 1) :
        get_bike_log_detail(u, i)

\* the bike-log workflow with its readers
NextBikeLogs ==
    \/ BikeSubmit(UserIds) /\ Bounded'
    \/ BikeVerify /\ Bounded'
    \/ BikeDetail
    \/ NextDay

SpecBikeLogs == Init /\ [][NextBikeLogs]_vars

\* bike logs submitted with tokens that outlive their accounts
NextWithdrawal ==
    \/ BikeSubmit(UserIds) /\ Bounded'
    \/ \E op \in {"delete_user", "withdraw_user"}, u \in UserIds :
           remove_user(op, u)
    \/ NextDay

SpecWithdrawal == Init /\ [][NextWithdrawal]_vars

\* the course-recommendation workflow only
NextRec ==
    \/ RecSubmit(UserIds) /\ Bounded'
    \/ RecVerify /\ Bounded'
    \/ NextDay

SpecRec == Init /\ [][NextRec]_vars

\* both verification workflows together, with one submitting user
NextWorkflow ==
    \/ BikeSubmit(Actors) /\ InBudget'
    \/ BikeVerify /\ InBudget'
    \/ RecSubmit(Actors) /\ InBudget'
    \/ RecVerify /\ InBudget'
    \/ NextDay

SpecWorkflow == Init /\ [][NextWorkflow]_vars

\* the community requests: posts, comments and likes
NextCommunity ==
    /\ \/ \E u \in UserIds, valid \in BOOLEAN : create_post(u, valid)
       \/ \E u \in UserIds, valid \in BOOLEAN :
              create_comment(u, MaxPosts, valid)
       \/ \E u \in UserIds, p \in {MaxPosts, MissingId} : toggle_like(u, p)
    /\ Bounded'

SpecCommunity == Init /\ [][NextCommunity]_vars

----------------------------------------------------------------------------
(* The verify handlers, statement by statement.  get_db sets autocommit, so *)
(* every cur.execute is committed when it returns; a handler that stops     *)
(* between two statements (the statement raises, the connection drops, the  *)
(* worker is killed) leaves the earlier statements in the database.         *)

\* the tables no verify statement writes
unverified == <<user_quiz_attempts, community_posts, today, manual, storage,
                post_likes, now, tokens>>

\* verify_bike_log up to and including UPDATE bike_usage_logs; a request the
\* checks turn down is answered as by verify_bike_log
verify_bike_log_update(admin_id, log_id, status) ==
    IF \/ status \notin {"verified", "rejected"}
       \/ log_id \notin 1..Len(bike_usage_logs)
       \/ bike_log_processed(log_id)
    THEN verify_bike_log(admin_id, log_id, status)
    ELSE /\ bike_usage_logs' = [bike_usage_logs EXCEPT
                ![log_id].verification_status = status,
                ![log_id].verified_by_admin_id = admin_id,
                ![log_id].points_awarded = BikePoints]
         /\ inflight' = inflight \cup
                {[ op |-> "verify_bike_log", pc |-> "credit", id |-> log_id,
                   user_id |-> bike_usage_logs[log_id].user_id,
                   status |-> status, points |-> BikePoints ]}
         /\ UNCHANGED <<users, rewards, course_recommendations, response,
                        unverified>>

\* verify_course_recommendation up to and including
\* UPDATE course_recommendations
verify_course_recommendation_update(admin_id, rec_id, status, points) ==
    IF \/ status \notin {"verified", "rejected"}
       \/ status = "verified" /\ points <= 0
       \/ rec_id \notin 1..Len(course_recommendations)
       \/ rec_processed(rec_id)
    THEN verify_course_recommendation(admin_id, rec_id, status, points)
    ELSE /\ course_recommendations' = [course_recommendations EXCEPT
                ![rec_id].status = status,
                ![rec_id].reviewed_by_admin_id = admin_id,
                ![rec_id].points_awarded = rec_points_awarded(status, points)]
         /\ inflight' = inflight \cup
                {[ op |-> "verify_course_recommendation", pc |-> "credit",
                   id |-> rec_id,
                   user_id |-> course_recommendations[rec_id].user_id,
                   status |-> status, points |-> points ]}
         /\ UNCHANGED <<users, rewards, bike_usage_logs, response, unverified>>

\* the answer of a verify handler that ran to its end
verify_done(r) ==
    [Resp(r.op, 200, "") EXCEPT
        !.status = r.status,
        !.points_awarded = IF r.op = "verify_bike_log" THEN r.points
                           ELSE rec_points_awarded(r.status, r.points)]

\* if status == "verified" and points > 0: UPDATE users
verify_credit(r) ==
    /\ r \in inflight
    /\ r.pc = "credit"
    /\ IF r.status = "verified" /\ r.points > 0
       THEN /\ users' = [users EXCEPT
                   ![r.user_id].experience_points = @ + r.points]
            /\ inflight' = (inflight \ {r}) \cup {[r EXCEPT !.pc = "reward"]}
            /\ UNCHANGED response
       ELSE /\ inflight' = inflight \ {r}
            /\ response' = verify_done(r)
            /\ UNCHANGED users
    /\ UNCHANGED <<rewards, bike_usage_logs, course_recommendations,
                   unverified>>

\* INSERT INTO rewards, then the answer
verify_reward(r) ==
    /\ r \in inflight
    /\ r.pc = "reward"
    /\ rewards' = Append(rewards,
           IF r.op = "verify_bike_log"
           THEN bike_reward_row(r.user_id, r.id, r.points)
           ELSE rec_reward_row(r.user_id, r.id, r.points))
    /\ inflight' = inflight \ {r}
    /\ response' = verify_done(r)
    /\ UNCHANGED <<users, bike_usage_logs, course_recommendations, unverified>>

\* the next statement raises or the request is cut short: nothing is rolled
\* back and the client gets a 500
verify_interrupted(r) ==
    /\ r \in inflight
    /\ inflight' = inflight \ {r}
    /\ response' = Raised(r.op)
    /\ UNCHANGED <<users, rewards, bike_usage_logs, course_recommendations,
                   unverified>>

StatementsBounded == Bounded /\ Cardinality(inflight) <= MaxInflight

NextStatements ==
    \/ BikeSubmit(Actors) /\ StatementsBounded'
    \/ RecSubmit(Actors) /\ StatementsBounded'
    \/ \E a \in AdminIds, i \in 1..Len(bike_usage_logs),
          s \in {"verified", "rejected"} :
           verify_bike_log_update(a, i, s) /\ StatementsBounded'
    \/ \E a \in AdminIds, i \in 1..Len(course_recommendations),
          s \in {"verified", "rejected"}, p \in {p \in PointsInputs : p > 0} :
           verify_course_recommendation_update(a, i, s, p)
           /\ StatementsBounded'
    \/ \E r \in inflight : verify_credit(r) /\ StatementsBounded'
    \/ \E r \in inflight : verify_reward(r) /\ StatementsBounded'
    \/ \E r \in inflight : verify_interrupted(r)

SpecStatements == Init /\ [][NextStatements]_vars

----------------------------------------------------------------------------
(* The verify handlers with their SELECT apart from their UPDATE: two       *)
(* administrators' requests for the same row may be served at the same time. *)

\* verify_bike_log up to its checks on the row it SELECTs: request n goes on
\* to the UPDATE, or is answered as by verify_bike_log
verify_bike_log_select(n, admin_id, log_id, status) ==
    IF \/ status \notin {"verified", "rejected"}
       \/ log_id \notin 1..Len(bike_usage_logs)
       \/ bike_log_processed(log_id)
    THEN verify_bike_log(admin_id, log_id, status)
    ELSE /\ \A r \in inflight : r.req # n
         /\ inflight' = inflight \cup
                {[ op |-> "verify_bike_log", pc |-> "update", req |-> n,
                   admin_id |-> admin_id, id |-> log_id,
                   user_id |-> bike_usage_logs[log_id].user_id,
                   status |-> status, points |-> BikePoints ]}
         /\ UNCHANGED <<users, rewards, bike_usage_logs,
                        course_recommendations, response, unverified>>

\* verify_course_recommendation up to its checks on the row it SELECTs
verify_course_recommendation_select(n, admin_id, rec_id, status, points) ==
    IF \/ status \notin {"verified", "rejected"}
       \/ status = "verified" /\ points <= 0
       \/ rec_id \notin 1..Len(course_recommendations)
       \/ rec_processed(rec_id)
    THEN verify_course_recommendation(admin_id, rec_id, status, points)
    ELSE /\ \A r \in inflight : r.req # n
         /\ inflight' = inflight \cup
                {[ op |-> "verify_course_recommendation", pc |-> "update",
                   req |-> n, admin_id |-> admin_id, id |-> rec_id,
                   user_id |-> course_recommendations[rec_id].user_id,
                   status |-> status, points |-> points ]}
         /\ UNCHANGED <<users, rewards, bike_usage_logs,
                        course_recommendations, response, unverified>>

\* UPDATE bike_usage_logs ... WHERE id = %s, or
\* UPDATE course_recommendations ... WHERE id = %s
verify_update(r) ==
    /\ r \in inflight
    /\ r.pc = "update"
    /\ IF r.op = "verify_bike_log"
       THEN /\ bike_usage_logs' = [bike_usage_logs EXCEPT
                   ![r.id].verification_status = r.status,
                   ![r.id].verified_by_admin_id = r.admin_id,
                   ![r.id].points_awarded = r.points]
            /\ UNCHANGED course_recommendations
       ELSE /\ course_recommendations' = [course_recommendations EXCEPT
                   ![r.id].status = r.status,
                   ![r.id].reviewed_by_admin_id = r.admin_id,
                   ![r.id].points_awarded
                       = rec_points_awarded(r.status, r.points)]
            /\ UNCHANGED bike_usage_logs
    /\ inflight' = (inflight \ {r}) \cup {[r EXCEPT !.pc = "credit"]}
    /\ UNCHANGED <<users, rewards, response, unverified>>

\* the submissions and requests in flight that the race is explored with
RaceBounded == StatementsBounded /\ Rows <= MaxRaceRows

\* complete submissions whose uploads succeed, and the verify requests
NextVerifyRace ==
    \/ \E u \in Actors :
           create_bike_log(u, "complete", TRUE, TRUE) /\ RaceBounded'
    \/ \E u \in Actors :
           create_course_recommendation(u, "complete", TRUE) /\ RaceBounded'
    \/ \E n \in 1..MaxInflight, a \in AdminIds,
          i \in 1..Len(bike_usage_logs), s \in {"verified", "rejected"} :
           verify_bike_log_select(n, a, i, s) /\ RaceBounded'
    \/ \E n \in 1..MaxInflight, a \in AdminIds,
          i \in 1..Len(course_recommendations),
          s \in {"verified", "rejected"}, p \in {p \in PointsInputs : p > 0} :
           verify_course_recommendation_select(n, a, i, s, p)
           /\ RaceBounded'
    \/ \E r \in inflight : verify_update(r)
    \/ \E r \in inflight : verify_credit(r) /\ RaceBounded'
    \/ \E r \in inflight : verify_reward(r) /\ RaceBounded'

SpecVerifyRace == Init /\ [][NextVerifyRace]_vars

----------------------------------------------------------------------------
(* attempt_quiz, statement by statement: attempts of the same user on the   *)
(* same quiz may be served at the same time.                                *)

\* the tables no statement of attempt_quiz writes
unattempted == <<bike_usage_logs, course_recommendations, community_posts,
                 today, manual, storage, post_likes, now, tokens>>

\* attempt_quiz up to SELECT id FROM user_quiz_attempts: request n remembers
\* already_correct and is_correct, or is answered as by attempt_quiz
quiz_select(n, u, q, answer) ==
    IF answer = "" \/ q \notin QuizIds
    THEN attempt_quiz(u, q, answer)
    ELSE /\ \A r \in inflight : r.req # n
         /\ inflight' = inflight \cup
                {[ op |-> "attempt_quiz", pc |-> "attempt", req |-> n,
                   user_id |-> u, id |-> q,
                   is_correct |-> answer = correct_answer(q),
                   already_correct |-> already_correct(u, q) ]}
         /\ UNCHANGED <<users, rewards, user_quiz_attempts, response,
                        unattempted>>

\* INSERT INTO user_quiz_attempts; the answer when no reward is due
quiz_attempt(r) ==
    /\ r \in inflight
    /\ r.pc = "attempt"
    /\ user_quiz_attempts' = Append(user_quiz_attempts,
           [user_id |-> r.user_id, quiz_id |-> r.id,
            is_correct |-> r.is_correct])
    /\ IF r.is_correct /\ ~r.already_correct
       THEN /\ inflight' = (inflight \ {r}) \cup {[r EXCEPT !.pc = "credit"]}
            /\ UNCHANGED response
       ELSE /\ inflight' = inflight \ {r}
            /\ response' = [Resp("attempt_quiz", 200, "") EXCEPT
                   !.is_correct = r.is_correct]
    /\ UNCHANGED <<users, rewards, unattempted>>

\* UPDATE users SET experience_points = experience_points + exp
quiz_credit(r) ==
    /\ r \in inflight
    /\ r.pc = "credit"
    /\ users' = [users EXCEPT ![r.user_id].experience_points = @ + QuizExp]
    /\ inflight' = (inflight \ {r}) \cup {[r EXCEPT !.pc = "reward"]}
    /\ UNCHANGED <<rewards, user_quiz_attempts, response, unattempted>>

\* INSERT INTO rewards, then the answer
quiz_reward(r) ==
    /\ r \in inflight
    /\ r.pc = "reward"
    /\ rewards' = Append(rewards, quiz_reward_row(r.user_id, r.id, QuizExp))
    /\ inflight' = inflight \ {r}
    /\ response' = [Resp("attempt_quiz", 200, "") EXCEPT
           !.is_correct = TRUE, !.reward_given = TRUE,
           !.experience_earned = QuizExp]
    /\ UNCHANGED <<users, user_quiz_attempts, unattempted>>

NextQuizRace ==
    \/ \E n \in 1..MaxInflight, u \in Actors, q \in QuizIds \cup {MissingId},
          a \in Answers :
           quiz_select(n, u, q, a) /\ StatementsBounded'
    \/ \E r \in inflight : quiz_attempt(r) /\ StatementsBounded'
    \/ \E r \in inflight : quiz_credit(r)
    \/ \E r \in inflight : quiz_reward(r) /\ StatementsBounded'

SpecQuizRace == Init /\ [][NextQuizRace]_vars

----------------------------------------------------------------------------
(* create_bike_log, statement by statement: the count check, the two photo  *)
(* uploads and the INSERT of submissions served at the same time interleave *)

\* the tables no statement of create_bike_log writes
unlogged == <<users, rewards, user_quiz_attempts, course_recommendations,
              community_posts, manual, post_likes, now, tokens>>

\* a complete form up to SELECT COUNT(*) ... created_at::date = CURRENT_DATE:
\* 400 at the daily limit, otherwise request n goes on to its uploads
bike_log_count(n, u) ==
    IF bike_logs_today(u) >= DailyBikeLogLimit
    THEN create_bike_log(u, "complete", TRUE, TRUE)
    ELSE /\ \A r \in inflight : r.req # n
         /\ inflight' = inflight \cup
                {[ op |-> "create_bike_log", pc |-> "bike_photo", req |-> n,
                   user_id |-> u ]}
         /\ UNCHANGED <<bike_usage_logs, storage, today, response, unlogged>>

\* upload_file_to_ncp of the bike photo, then of the safety gear photo;
\* uploaded: whether it returns a url; an error ends the request with 500
bike_log_upload(r, uploaded) ==
    /\ r \in inflight
    /\ r.pc \in {"bike_photo", "safety_gear_photo"}
    /\ IF uploaded
       THEN /\ storage' = storage + 1
            /\ inflight' = (inflight \ {r}) \cup
                   {[r EXCEPT !.pc = IF r.pc = "bike_photo"
                                     THEN "safety_gear_photo" ELSE "insert"]}
            /\ UNCHANGED response
       ELSE /\ inflight' = inflight \ {r}
            /\ response' = Resp("create_bike_log", 500, "upload failed")
            /\ UNCHANGED storage
    /\ UNCHANGED <<bike_usage_logs, today, unlogged>>

\* SELECT id FROM users, INSERT INTO bike_usage_logs, then the answer
bike_log_insert(r) ==
    /\ r \in inflight
    /\ r.pc = "insert"
    /\ inflight' = inflight \ {r}
    /\ IF r.user_id \notin DOMAIN users
       THEN /\ response' = Resp("create_bike_log", 404, "user not found")
            /\ UNCHANGED bike_usage_logs
       ELSE /\ bike_usage_logs' = Append(bike_usage_logs,
                   [ user_id |-> r.user_id, verification_status |-> "pending",
                     points_awarded |-> 0, verified_by_admin_id |-> 0,
                     created_at |-> today ])
            /\ response' = [Resp("create_bike_log", 201, "") EXCEPT
                   !.status = "pending"]
    /\ UNCHANGED <<storage, today, unlogged>>

\* midnight passes while requests are being served
midnight ==
    /\ today < MaxDay
    /\ today' = today + 1
    /\ UNCHANGED <<bike_usage_logs, storage, inflight, response, unlogged>>

NextBikeRace ==
    \/ \E n \in 1..MaxInflight, u \in Actors :
           bike_log_count(n, u) /\ StatementsBounded'
    \/ \E r \in inflight, uploaded \in BOOLEAN :
           bike_log_upload(r, uploaded) /\ StatementsBounded'
    \/ \E r \in inflight : bike_log_insert(r) /\ StatementsBounded'
    \/ midnight

SpecBikeRace == Init /\ [][NextBikeRace]_vars

----------------------------------------------------------------------------
(* toggle_like, statement by statement: requests of the same user on the    *)
(* same post may be served by different workers at the same time.           *)

\* the tables no statement of toggle_like writes
unliked == <<users, rewards, user_quiz_attempts, bike_usage_logs,
             course_recommendations, today, manual, storage, now, tokens>>

\* the numbers of the requests being served
Requests == 1..MaxInflight

\* SELECT id FROM post_likes: the request remembers existing_like
like_select(n, u, p) ==
    /\ p \in DOMAIN community_posts
    /\ \A r \in inflight : r.req # n
    /\ inflight' = inflight \cup
           {[ op |-> "toggle_like", pc |-> "write", req |-> n, post_id |-> p,
              user_id |-> u,
              existing |-> existing_like(post_likes, u, p) # {} ]}
    /\ UNCHANGED <<post_likes, community_posts, response, unliked>>

\* DELETE FROM post_likes when a row was found, INSERT INTO post_likes when
\* none was; an INSERT that raises ends the request with a 500
like_write(r) ==
    /\ r \in inflight
    /\ r.pc = "write"
    /\ IF r.existing
       THEN /\ post_likes' = delete_like(post_likes, r.user_id, r.post_id)
            /\ inflight' = (inflight \ {r}) \cup {[r EXCEPT !.pc = "count"]}
            /\ UNCHANGED response
       ELSE LET inserted == insert_like(post_likes, r.user_id, r.post_id)
            IN /\ post_likes' = inserted.post_likes
               /\ IF inserted.ok
                  THEN /\ inflight' = (inflight \ {r})
                                          \cup {[r EXCEPT !.pc = "count"]}
                       /\ UNCHANGED response
                  ELSE /\ inflight' = inflight \ {r}
                       /\ response' = Raised("toggle_like")
    /\ UNCHANGED <<community_posts, unliked>>

\* UPDATE community_posts SET likes_count = likes_count - 1 or + 1
like_count(r) ==
    /\ r \in inflight
    /\ r.pc = "count"
    /\ community_posts' = count_likes(community_posts, r.post_id,
                                      IF r.existing THEN -1 ELSE 1)
    /\ inflight' = (inflight \ {r}) \cup {[r EXCEPT !.pc = "answer"]}
    /\ UNCHANGED <<post_likes, response, unliked>>

\* SELECT likes_count FROM community_posts, then the answer
like_answer(r) ==
    /\ r \in inflight
    /\ r.pc = "answer"
    /\ inflight' = inflight \ {r}
    /\ response' = [Resp("toggle_like", 200, "") EXCEPT
           !.liked = ~r.existing,
           !.likes_count = community_posts[r.post_id].likes_count]
    /\ UNCHANGED <<post_likes, community_posts, unliked>>

\* the likes_count values a new toggle_like is explored from
LikesBounded ==
    \A p \in DOMAIN community_posts :
        community_posts[p].likes_count \in -MaxLikes..MaxLikes

NextLikes ==
    \/ \E u \in UserIds : create_post(u, TRUE) /\ StatementsBounded'
    \/ \E n \in Requests, u \in UserIds, p \in 1..MaxPosts :
           like_select(n, u, p) /\ LikesBounded /\ StatementsBounded'
    \/ \E r \in inflight : like_write(r)
    \/ \E r \in inflight : like_count(r)
    \/ \E r \in inflight : like_answer(r)

SpecLikes == Init /\ [][NextLikes]_vars

----------------------------------------------------------------------------
(* Tokens and the decorators of utils/auth.py.  A token is its payload; the *)
(* tokens of the variable tokens are the ones signed with JWT_SECRET_KEY.   *)

\* username and email of a kakao profile, as one value
Names == {"kim"}

\* the Authorization header of a request: absent (or not 'Bearer ...'), a
\* string that is no token of this server, or a token of this server
Credentials ==
    {[kind |-> "none", token |-> NoToken],
     [kind |-> "garbage", token |-> NoToken]}
    \cup {[kind |-> "signed", token |-> t] : t \in tokens}

\* the X-Admin header of a request ("" = absent)
AdminHeaders == {"", "true", "false"}

generate_jwt_token(user_id, username, is_admin) ==
    [ user_id |-> user_id, username |-> username, is_admin |-> is_admin,
      exp |-> now + JWT_EXPIRATION_DAYS ]

\* a decoder that does not look at the expiry
decode_jwt_token_unexpiring(cred) ==
    IF cred.kind = "signed" THEN cred.token ELSE NoToken

\* jwt.decode: the payload, or None (NoToken) for a bad signature, a
\* malformed token or an expired one (exp <= now)
decode_jwt_token(cred) ==
    IF cred.kind = "signed" /\ cred.token.exp > now THEN cred.token
    ELSE NoToken

\* get_token_from_header() is not None
get_token_from_header(cred) == cred.kind # "none"

\* the answer of a decorator that turns the request down, "" if it lets the
\* request through to the handler
jwt_required(cred) ==
    IF ~get_token_from_header(cred)
    THEN [code |-> 401, error |-> "Authorization token required"]
    ELSE IF decode_jwt_token(cred) = NoToken
    THEN [code |-> 401, error |-> "Invalid or expired token"]
    ELSE [code |-> 0, error |-> ""]

\* a decorator that trusts the X-Admin header alone
admin_required_header_only(cred, admin_header) ==
    IF ~get_token_from_header(cred)
    THEN [code |-> 401, error |-> "Authorization token required"]
    ELSE IF decode_jwt_token(cred) = NoToken
    THEN [code |-> 401, error |-> "Invalid or expired token"]
    ELSE IF admin_header # "true"
    THEN [code |-> 403, error |-> "Admin access required"]
    ELSE [code |-> 0, error |-> ""]

admin_required(cred, admin_header) ==
    IF ~get_token_from_header(cred)
    THEN [code |-> 401, error |-> "Authorization token required"]
    ELSE IF decode_jwt_token(cred) = NoToken
    THEN [code |-> 401, error |-> "Invalid or expired token"]
    ELSE IF admin_header # "true"
    THEN [code |-> 403, error |-> "Admin access required"]
    ELSE IF ~decode_jwt_token(cred).is_admin
    THEN [code |-> 403, error |-> "Admin privileges required"]
    ELSE [code |-> 0, error |-> ""]

\* the routes by decorator (the names are the view functions)
AdminEndpoints ==
    { "get_pending_bike_logs", "verify_bike_log", "create_news", "update_news",
      "delete_news", "create_quiz", "update_quiz", "delete_quiz",
      "generate_quiz", "verify_course_recommendation",
      "list_all_course_recommendations", "export_course_recommendations",
      "list_files", "delete_file" }

JwtEndpoints ==
    { "create_bike_log", "get_user_bike_logs", "get_bike_log_detail",
      "get_today_bike_log_count", "list_posts", "create_post",
      "create_comment", "toggle_like", "get_safety_reports",
      "create_safety_report", "list_news", "get_news", "list_quizzes",
      "today_quiz_status", "attempt_quiz", "create_course_recommendation",
      "list_course_recommendations", "week_course_recommendation_count",
      "get_user_rewards", "upload_file", "update_user", "delete_user",
      "withdraw_user", "logout_user", "refresh_token", "get_user_profile",
      "update_user_level", "update_user_score", "get_user_settings",
      "update_user_settings", "get_user_verifications", "create_verification",
      "get_all_levels" }

\* the routes without a decorator
OpenEndpoints == {"test_route", "register_user", "get_post", "get_test_token"}

Endpoints == AdminEndpoints \cup JwtEndpoints \cup OpenEndpoints

\* the decorator of a route, applied to a request
decorated(ep, cred, admin_header) ==
    IF ep \in AdminEndpoints THEN admin_required(cred, admin_header)
    ELSE IF ep \in JwtEndpoints THEN jwt_required(cred)
    ELSE [code |-> 0, error |-> ""]

\* every variable but response, tokens and users
untouched == <<rewards, user_quiz_attempts, bike_usage_logs,
               course_recommendations, community_posts, today, manual,
               post_likes, storage, now, inflight>>

\* the test accounts of get_test_token: the administrator and the plain user
TestAdminId == 2
TestUserId == 1

\* the is_admin column of the users row u (SELECT ... is_admin FROM users):
\* set for the administrators' rows, and no endpoint changes it
is_admin(u) == u \in AdminIds

\* POST /users for the kakao account k; login: the outcome of the kakao
\* calls
Logins == {"no_code", "kakao_error", "ok"}

\* a registration that copies an is_admin flag into the token
register_user_as_admin(k, username, login) ==
    /\ login = "ok"
    /\ tokens' = tokens \cup {generate_jwt_token(k, username, k \in AdminIds)}
    /\ response' = [Resp("register_user", 201, "") EXCEPT
           !.access_token = generate_jwt_token(k, username, k \in AdminIds)]
    /\ UNCHANGED <<users, untouched>>

register_user(k, username, login) ==
    IF login = "no_code"
    THEN /\ response' = Resp("register_user", 400, "authorization code missing")
         /\ UNCHANGED <<users, tokens, untouched>>
    ELSE IF login = "kakao_error"
    THEN /\ response' = Resp("register_user", 500, "kakao login failed")
         /\ UNCHANGED <<users, tokens, untouched>>
    ELSE /\ users' = IF k \in DOMAIN users THEN users
                     ELSE [u \in DOMAIN users \cup {k} |->
                              IF u = k THEN user_defaults ELSE users[u]]
         /\ tokens' = tokens \cup {generate_jwt_token(k, username, FALSE)}
         /\ response' = [Resp("register_user", 201, "") EXCEPT
                !.access_token = generate_jwt_token(k, username, FALSE)]
         /\ UNCHANGED untouched

\* GET /dev/test-token; production: FLASK_ENV is "production"
get_test_token(production, user_type) ==
    IF production
    THEN /\ response' = Resp("get_test_token", 403,
                             "Not available in production")
         /\ UNCHANGED <<users, tokens, untouched>>
    ELSE LET id == IF user_type = "admin" THEN TestAdminId ELSE TestUserId
             username == IF user_type = "admin" THEN "test_admin"
                         ELSE "test_user"
             token == generate_jwt_token(id, username, user_type = "admin")
         IN /\ users' = IF id \in DOMAIN users THEN users
                        ELSE [u \in DOMAIN users \cup {id} |->
                                 IF u = id THEN user_defaults ELSE users[u]]
            /\ tokens' = tokens \cup {token}
            /\ response' = [Resp("get_test_token", 200, "") EXCEPT
                   !.access_token = token]
            /\ UNCHANGED untouched

\* a refresh that keeps the expiry of the presented token
refresh_jwt_token_same_expiry(cred) ==
    IF decode_jwt_token(cred) = NoToken THEN NoToken
    ELSE decode_jwt_token(cred)

\* refresh_jwt_token(current_token): the new token, or None (NoToken)
refresh_jwt_token(cred) ==
    IF decode_jwt_token(cred) = NoToken THEN NoToken
    ELSE generate_jwt_token(decode_jwt_token(cred).user_id,
                            decode_jwt_token(cred).username,
                            decode_jwt_token(cred).is_admin)

\* POST /users/refresh, the body of the handler
refresh_token(cred) ==
    IF refresh_jwt_token(cred) = NoToken
    THEN /\ response' = Resp("refresh_token", 400, "Failed to refresh token")
         /\ UNCHANGED <<users, tokens, untouched>>
    ELSE /\ tokens' = tokens \cup {refresh_jwt_token(cred)}
         /\ response' = [Resp("refresh_token", 200, "") EXCEPT
                !.access_token = refresh_jwt_token(cred)]
         /\ UNCHANGED <<users, untouched>>

\* a handler whose statements are not followed here: it ran and answered
answered(ep) ==
    /\ response' = Resp(ep, 200, "")
    /\ UNCHANGED <<users, tokens, untouched>>

\* GET /test: make_response("hello world")
test_route ==
    /\ response' = [Resp("test_route", 200, "") EXCEPT
           !.body = make_response(PyStr, 200)]
    /\ UNCHANGED <<users, tokens, untouched>>

\* GET /users/rewards: make_response([dict(r) for r in rewards])
get_user_rewards(u) ==
    /\ response' = [Resp("get_user_rewards", 200, "") EXCEPT
           !.body = make_response(
                        PyList([i \in 1..Len(LedgerOf(u)) |-> PyDict]), 200)]
    /\ UNCHANGED <<users, tokens, untouched>>

\* GET /admin/course-recommendations/export: a status filter that is not
\* allowed is a 400; otherwise the rows as a text/csv attachment
export_course_recommendations(status_allowed) ==
    /\ response' =
           IF ~status_allowed
           THEN Resp("export_course_recommendations", 400,
                     "status must be 'verified' or 'rejected'")
           ELSE [ Resp("export_course_recommendations", 200, "") EXCEPT
                    !.mimetype = "text/csv", !.body = NoEnvelope ]
    /\ UNCHANGED <<users, tokens, untouched>>

\* the view function of a route, run for the user of the token
view(ep, cred) ==
    LET user_id == decode_jwt_token(cred).user_id
    IN CASE ep = "create_post" -> create_post(user_id, TRUE)
         [] ep = "create_bike_log" ->
               create_bike_log(user_id, "complete", TRUE, TRUE)
         [] ep = "verify_bike_log" ->
               \E i \in 1..(Len(bike_usage_logs) + 1),
                  s \in {"verified", "rejected"} :
                   verify_bike_log(user_id, i, s)
         [] ep = "refresh_token" -> refresh_token(cred)
         [] ep = "register_user" ->
               \E k \in UserIds, n \in Names, l \in Logins :
                   register_user(k, n, l)
         [] ep = "get_test_token" ->
               \E production \in BOOLEAN, t \in {"user", "admin"} :
                   get_test_token(production, t)
         [] ep = "update_user_level" ->
               \E d \in LevelDeltas : update_user_level(user_id, d)
         [] ep = "update_user_score" ->
               \E d \in ScoreDeltas : update_user_score(user_id, d)
         [] ep = "test_route" -> test_route
         [] ep = "get_user_rewards" -> get_user_rewards(user_id)
         [] ep = "export_course_recommendations" ->
               \E status_allowed \in BOOLEAN :
                   export_course_recommendations(status_allowed)
         [] OTHER -> answered(ep)

\* a request to a route: the decorator, then the view function
Call(ep, cred, admin_header) ==
    IF decorated(ep, cred, admin_header).code # 0
    THEN /\ response' = Resp(ep, decorated(ep, cred, admin_header).code,
                                 decorated(ep, cred, admin_header).error)
         /\ UNCHANGED <<users, tokens, untouched>>
    ELSE view(ep, cred)

\* the application clock advances by d days
Tick(d) ==
    /\ now + d <= MaxNow
    /\ now' = now + d
    /\ UNCHANGED <<users, rewards, user_quiz_attempts, bike_usage_logs,
                   course_recommendations, community_posts, today, manual,
                   response, post_likes, storage, tokens, inflight>>

AuthBounded ==
    /\ Bounded
    /\ Cardinality(tokens) <= MaxTokens
    /\ Rows <= MaxAuthRows

\* the routes that requests are sent to: the open ones, and of either
\* decorator the ones whose view function is followed plus one that is not
Called ==
    OpenEndpoints
    \cup {"create_post", "create_bike_log", "get_user_rewards"}
    \cup {"verify_bike_log", "export_course_recommendations"}

\* requests with any headers, and the clock a token's lifetime further
NextAuth ==
    \/ \E ep \in Called, cred \in Credentials, h \in AdminHeaders :
           Call(ep, cred, h) /\ AuthBounded'
    \/ Tick(JWT_EXPIRATION_DAYS)

SpecAuth == Init /\ [][NextAuth]_vars

\* issuing, refreshing and presenting tokens, day by day
NextTokens ==
    \/ \E ep \in {"register_user", "get_test_token", "refresh_token",
                  "get_user_rewards"},
          cred \in Credentials :
           Call(ep, cred, "") /\ AuthBounded'
    \/ Tick(1)

SpecTokens == Init /\ [][NextTokens]_vars

\* the three handlers that call the upload adapter
NextUpload ==
    \/ \E r \in UploadRequests :
           upload_file(r.configured, r.attached, r.file, r.backend)
           /\ Bounded'
    \/ \E u \in Actors, configured \in BOOLEAN, bike_photo \in Photos,
          safety_gear_photo \in Photos, backend1 \in Backends,
          backend2 \in Backends :
           create_bike_log_photos(u, configured, bike_photo,
                                  safety_gear_photo, backend1, backend2)
           /\ Bounded'
    \/ \E u \in Actors, photo \in Photos, backend \in Backends :
           create_course_recommendation_photo(u, photo, backend) /\ Bounded'

SpecUpload == Init /\ [][NextUpload]_vars

\* the two routes that change experience_points by a number of the body,
\* called with the tokens the server hands out
NextAdjust ==
    \E ep \in {"register_user", "get_test_token", "update_user_level",
                "update_user_score"},
       cred \in Credentials, h \in AdminHeaders :
        Call(ep, cred, h) /\ AuthBounded' /\ ExpBounded'

SpecAdjust == Init /\ [][NextAdjust]_vars

----------------------------------------------------------------------------
(* Claims *)

\* user u has a correct attempt on quiz q on record
HasCorrectAttempt(u, q) ==
    \E i \in 1..Len(user_quiz_attempts) :
        user_quiz_attempts[i] = [user_id |-> u, quiz_id |-> q, is_correct |-> TRUE]

\* C1: for every user the experience_points of the user's ledger rows add up
\* to the user's experience_points minus the manual adjustments, and a
\* created comment has appended a ledger row carrying its reason.
C1_LedgerMatchesExperience ==
    /\ \A u \in UserIds :
          SumExp(LedgerOf(u)) = users[u].experience_points - manual[u]
    /\ (response.op = "create_comment" /\ response.code = 201)
          => /\ rewards # <<>>
             /\ rewards[Len(rewards)].experience_points = CommentExp
             /\ rewards[Len(rewards)].reward_reason = "comment created"

\* C2: with quiz attempts only, every user's experience_points is the initial
\* 0 plus the experience_points of the user's ledger rows of source_type
\* 'quiz', and the experience_earned of a rewarding answer is the amount of
\* the ledger row it appended (hence, by the sum, of the user row as well).
C2_QuizLedgerBalance ==
    /\ \A u \in UserIds :
          users[u].experience_points = SumExp(LedgerOfType(u, "quiz"))
    /\ \A i \in 1..Len(rewards) : rewards[i].source_type = "quiz"
    /\ response.reward_given
          => /\ rewards # <<>>
             /\ response.experience_earned
                   = rewards[Len(rewards)].experience_points

C2_Witness ==
    /\ response.op = "attempt_quiz"
    /\ response.reward_given
    /\ \E u \in UserIds :
          /\ Len(LedgerOfType(u, "quiz")) = 2
          /\ users[u].experience_points = 2 * QuizExp

C4_BikeVerifyCreditsOwner ==
    [][\A a \in AdminIds, i \in 1..Len(bike_usage_logs) :
          (/\ bike_usage_logs[i].verification_status = "pending"
           /\ verify_bike_log(a, i, "verified"))
          => LET owner == bike_usage_logs[i].user_id
             IN /\ users'[owner].experience_points
                      = users[owner].experience_points + 10
                /\ Len(rewards') = Len(rewards) + 1
                /\ SubSeq(rewards', 1, Len(rewards)) = rewards
                /\ rewards'[Len(rewards')].user_id = owner
                /\ rewards'[Len(rewards')].source_type = "bike_usage"
                /\ rewards'[Len(rewards')].source_id = i
                /\ rewards'[Len(rewards')].experience_points = 10
                /\ bike_usage_logs'[i].verification_status = "verified"
                /\ bike_usage_logs'[i].points_awarded = 10
                /\ response'.code = 200
                /\ response'.points_awarded = 10
                /\ \A v \in UserIds \ {owner} : users'[v] = users[v]]_vars

C4_Witness ==
    /\ response.op = "verify_bike_log"
    /\ response.code = 200
    /\ response.status = "verified"
    /\ \E i \in 1..Len(bike_usage_logs) :
          /\ bike_usage_logs[i].verification_status = "verified"
          /\ users[bike_usage_logs[i].user_id].experience_points >= BikePoints

\* a verify request the handlers' validation lets through
ValidVerify(status, points) ==
    \/ status = "rejected"
    \/ status = "verified" /\ points > 0

C6_RecVerifyCreditsSubmitter ==
    [][\A a \in AdminIds, i \in 1..(Len(course_recommendations) + 1),
          p \in PointsInputs :
          /\ (/\ i <= Len(course_recommendations)
              /\ course_recommendations[i].status = "pending"
              /\ p > 0
              /\ verify_course_recommendation(a, i, "verified", p))
             => LET owner == course_recommendations[i].user_id
                IN /\ users' = [users EXCEPT
                          ![owner].experience_points = @ + p]
                   /\ Len(rewards') = Len(rewards) + 1
                   /\ SubSeq(rewards', 1, Len(rewards)) = rewards
                   /\ rewards'[Len(rewards')].user_id = owner
                   /\ rewards'[Len(rewards')].source_type
                         = "course_recommendation"
                   /\ rewards'[Len(rewards')].source_id = i
                   /\ rewards'[Len(rewards')].experience_points = p
                   /\ course_recommendations'[i].status = "verified"
                   /\ course_recommendations'[i].points_awarded = p
                   /\ response'.code = 200
                   /\ response'.points_awarded = p
          /\ (/\ i <= Len(course_recommendations)
              /\ course_recommendations[i].status = "pending"
              /\ verify_course_recommendation(a, i, "rejected", p))
             => /\ course_recommendations'[i].status = "rejected"
                /\ course_recommendations'[i].points_awarded = 0
                /\ response'.code = 200
                /\ response'.points_awarded = 0
                /\ UNCHANGED <<users, rewards>>
          /\ (p <= 0 /\ verify_course_recommendation(a, i, "verified", p))
             => /\ response'.code = 400
                /\ UNCHANGED <<course_recommendations, users, rewards>>]_vars

C6_Witness ==
    /\ response.op = "verify_course_recommendation"
    /\ response.code = 200
    /\ \E i, j \in 1..Len(course_recommendations) :
          /\ course_recommendations[i].status = "verified"
          /\ course_recommendations[i].points_awarded > 0
          /\ users[course_recommendations[i].user_id].experience_points
                >= course_recommendations[i].points_awarded
          /\ course_recommendations[j].status = "rejected"

\* user u has a bike log created on the current day
HasLogToday(u) ==
    \E i \in 1..Len(bike_usage_logs) :
        /\ bike_usage_logs[i].user_id = u
        /\ bike_usage_logs[i].created_at = today

NonRejectedThisWeek(u) ==
    Cardinality({ i \in 1..Len(course_recommendations) :
        /\ course_recommendations[i].user_id = u
        /\ WeekStart(course_recommendations[i].created_at) = WeekStart(today)
        /\ course_recommendations[i].status # "rejected" })

C9_LevelMatchesExperience ==
    \A u \in UserIds : users[u].level = LevelFor(users[u].experience_points)

\* C10: every user's experience_points and points are at least 0.
C10_NonNegative ==
    \A u \in UserIds : users[u].experience_points >= 0 /\ users[u].points >= 0

\* C11: once no verify request is between two statements, every user's
\* experience_points is matched by the user's ledger rows, and every log or
\* recommendation marked 'verified' has its ledger row, also after a request
\* that stopped between two statements.
C11_RewardSequenceAtomic ==
    inflight = {}
    => /\ \A u \in DOMAIN users :
             users[u].experience_points = SumExp(LedgerOf(u))
       /\ \A i \in 1..Len(bike_usage_logs) :
             bike_usage_logs[i].verification_status = "verified"
             => \E k \in 1..Len(rewards) :
                   /\ rewards[k].source_type = "bike_usage"
                   /\ rewards[k].source_id = i
                   /\ rewards[k].user_id = bike_usage_logs[i].user_id
       /\ \A i \in 1..Len(course_recommendations) :
             course_recommendations[i].status = "verified"
             => \E k \in 1..Len(rewards) :
                   /\ rewards[k].source_type = "course_recommendation"
                   /\ rewards[k].source_id = i
                   /\ rewards[k].user_id = course_recommendations[i].user_id

\* a request with these headers passes for an administrator's
IsAdminRequest(cred, admin_header) ==
    /\ cred.kind = "signed"
    /\ now < cred.token.exp
    /\ cred.token.is_admin
    /\ admin_header = "true"

\* a step that changes nothing but the answer
OnlyAnswers ==
    UNCHANGED <<users, rewards, user_quiz_attempts, bike_usage_logs,
                course_recommendations, community_posts, today, manual,
                post_likes, storage, now, tokens, inflight>>

C13_TokenRequired ==
    /\ [](\A ep \in AdminEndpoints \cup JwtEndpoints, cred \in Credentials,
             h \in AdminHeaders :
             /\ cred.kind = "none"
                => decorated(ep, cred, h)
                      = [code |-> 401, error |-> "Authorization token required"]
             /\ (\/ cred.kind = "garbage"
                 \/ cred.kind = "signed" /\ cred.token.exp <= now)
                => decorated(ep, cred, h)
                      = [code |-> 401, error |-> "Invalid or expired token"])
    /\ [][\A ep \in Called \cap (AdminEndpoints \cup JwtEndpoints),
             cred \in Credentials, h \in AdminHeaders :
             (/\ response'.op = ep
              /\ \/ cred.kind # "signed"
                 \/ cred.token.exp <= now
              /\ Call(ep, cred, h))
             => /\ response'.code = 401
                /\ response'.error = IF cred.kind = "none"
                                     THEN "Authorization token required"
                                     ELSE "Invalid or expired token"
                /\ OnlyAnswers]_vars

C13_Witness ==
    /\ response.op = "create_post"
    /\ response.code = 401
    /\ response.error = "Invalid or expired token"
    /\ tokens # {}
    /\ \A t \in tokens : t.exp <= now

\* the routes that read without a token and may pass for public listings
PublicReadEndpoints == {"test_route", "get_post"}

\* C14: apart from the registration route and the public read routes, a
\* request without a token is answered 401 by every route and changes
\* nothing.
C14_TokenOnEveryEndpoint ==
    [][\A ep \in Called \ ({"register_user"} \cup PublicReadEndpoints),
          h \in AdminHeaders :
          (/\ response'.op = ep
           /\ Call(ep, [kind |-> "none", token |-> NoToken], h))
          => /\ response'.code = 401
             /\ OnlyAnswers]_vars

\* C15: refreshing with an unexpired token of this server answers with a
\* token that has the same user_id, username and is_admin and expires 7 days
\* after the refresh, and the presented token stays among the server's
\* tokens; a token of the server is let through by jwt_required exactly
\* while the clock is before its own expiry, whatever was refreshed.
C15_RefreshKeepsOldToken ==
    /\ [](\A t \in tokens :
             jwt_required([kind |-> "signed", token |-> t]).code = 0
             <=> now < t.exp)
    /\ [][\A cred \in Credentials :
             /\ (/\ response'.op = "refresh_token"
                 /\ cred.kind = "signed"
                 /\ now < cred.token.exp
                 /\ Call("refresh_token", cred, ""))
                => /\ response'.code = 200
                   /\ response'.access_token
                         = [cred.token EXCEPT !.exp = now + 7]
                   /\ tokens' = tokens \cup {response'.access_token}
             /\ (/\ response'.op = "get_user_rewards"
                 /\ cred.kind = "signed"
                 /\ Call("get_user_rewards", cred, ""))
                => (response'.code = 200 <=> now < cred.token.exp)]_vars

C15_Witness ==
    /\ response.op = "refresh_token"
    /\ response.code = 200
    /\ response.access_token \in tokens
    /\ response.access_token.exp = now + 7
    /\ \E t \in tokens :
          /\ t.user_id = response.access_token.user_id
          /\ now < t.exp
          /\ t.exp < response.access_token.exp

----------------------------------------------------------------------------
\* the like rows of user u on post p
LikeRows(likes, u, p) == Cardinality(existing_like(likes, u, p))

----------------------------------------------------------------------------
----------------------------------------------------------------------------
\* the answer is the JSON envelope {code, message, data} of its status code,
\* with an array as data
IsEnvelope(r) ==
    /\ r.mimetype = "application/json"
    /\ r.body.code = r.code
    /\ r.body.message = HTTPStatusPhrase(r.code)
    /\ r.body.data.kind = "list"

\* make_response passes a list through, wraps a single value in a
\* one-element array and turns None into the empty array
WrapsData ==
    \A data \in PyValues :
        LET payload == make_response(data, 200).data
        IN /\ payload.kind = "list"
           /\ data.kind = "list" => payload = data
           /\ data = PyNone => payload.items = <<>>
           /\ data.kind \in {"str", "dict"} => payload.items = <<data>>

----------------------------------------------------------------------------
\* C19: for every authenticated user u and log id i, GET /users/bike-logs/<i>
\* answers 404 when no log has id i, 403 when the log is owned by another
\* user, and 200 with the log only when u owns it; existence is checked
\* before ownership, and no field of another user's log is returned.
C19_BikeLogDetailOwnerOnly ==
    [][\A u \in UserIds : \A i \in 1..(Len(bike_usage_logs) + 1) :
          (response'.op = "get_bike_log_detail" /\ get_bike_log_detail(u, i))
          => /\ i \notin 1..Len(bike_usage_logs) =>
                    /\ response'.code = 404
                    /\ response'.error = "bike log not found"
             /\ (i \in 1..Len(bike_usage_logs)
                    /\ bike_usage_logs[i].user_id # u) =>
                    response'.code = 403
             /\ (i \in 1..Len(bike_usage_logs)
                    /\ bike_usage_logs[i].user_id = u) =>
                    /\ response'.code = 200
                    /\ response'.user_id = u
                    /\ response'.status = bike_usage_logs[i].verification_status
                    /\ response'.points_awarded
                           = bike_usage_logs[i].points_awarded
             /\ response'.code # 200 =>
                    /\ response'.user_id = 0
                    /\ response'.status = ""
                    /\ response'.points_awarded = 0
    ]_vars

\* a user asked for a verified log of another user and was refused
C19_Witness ==
    /\ response.op = "get_bike_log_detail"
    /\ response.code = 403
    /\ \E i \in 1..Len(bike_usage_logs) :
           bike_usage_logs[i].verification_status = "verified"
    /\ \E i, j \in 1..Len(bike_usage_logs) :
           bike_usage_logs[i].user_id # bike_usage_logs[j].user_id

----------------------------------------------------------------------------
\* C20: every request that is rejected with a 4xx is detected before any
\* write and has no side effect: no row of the relational store is
\* inserted, updated or deleted and no object is uploaded to the object
\* storage.
C20_RejectionWritesNothing ==
    [][(response'.op # "none" /\ response'.code \in 400..499)
          => UNCHANGED <<users, rewards, user_quiz_attempts, bike_usage_logs,
                         course_recommendations, community_posts, post_likes,
                         storage>>]_vars

----------------------------------------------------------------------------
\* C21: experience_points never decreases across an operation other than an
\* explicit administrative adjustment: no request of a caller without admin
\* privilege lowers the experience_points of any user.
C21_ExperienceNeverLowered ==
    [][\A ep \in Endpoints : \A cred \in Credentials :
       \A h \in AdminHeaders :
          (response'.op = ep /\ ~IsAdminRequest(cred, h) /\ Call(ep, cred, h))
          => \A u \in DOMAIN users \cap DOMAIN users' :
                 users'[u].experience_points >= users[u].experience_points
    ]_vars

----------------------------------------------------------------------------
\* the checks of the adapter that look at the file alone
ValidationChecks == {"filename", "extension", "size"}

\* the status a caller owes to what the adapter gave back
MapsError(uploaded, code) ==
    /\ uploaded.error \in ValidationChecks => code = 400
    /\ uploaded.error = "backend" => code = 500

\* C22: an upload request maps the adapter's error to the HTTP status by the
\* check that failed, at every call site (POST /storage/upload, bike-log
\* creation, course-recommendation creation): a validation failure (empty
\* filename, extension not allowed, size over 10 MiB) yields 400 and a
\* failure of the storage backend yields 500.
C22_UploadErrorStatus ==
    [][/\ \A r \in UploadRequests :
            (response'.op = "upload_file" /\ r.configured /\ r.attached
               /\ upload_file(r.configured, r.attached, r.file, r.backend))
            => MapsError(upload_file_to_ncp(r.file, r.backend),
                         response'.code)
       /\ \A u \in Actors : \A photo \in Photos : \A backend \in Backends :
            (response'.op = "create_course_recommendation"
               /\ recs_this_week(u) < WeeklyRecLimit
               /\ create_course_recommendation_photo(u, photo, backend))
            => MapsError(upload_file_to_ncp(photo, backend), response'.code)
       /\ \A u \in Actors : \A bike_photo \in Photos :
          \A safety_gear_photo \in Photos : \A backend1 \in Backends :
          \A backend2 \in Backends :
            (response'.op = "create_bike_log"
               /\ bike_logs_today(u) < DailyBikeLogLimit
               /\ create_bike_log_photos(u, TRUE, bike_photo,
                                         safety_gear_photo, backend1,
                                         backend2))
            => LET first == upload_file_to_ncp_bike_logs(TRUE, bike_photo,
                                                         backend1)
                   second == upload_file_to_ncp_bike_logs(
                                 TRUE, safety_gear_photo, backend2)
               IN /\ MapsError(first, response'.code)
                  /\ first.url => MapsError(second, response'.code)
    ]_vars

\* the file may be stored: it has a name, an allowed extension and at most
\* MAX_FILE_SIZE bytes
ValidFile(file) ==
    /\ file.filename # <<>>
    /\ allowed_file(file.filename)
    /\ file.size <= MAX_FILE_SIZE

\* C23: the upload adapter never raises: for every file (a name that passes
\* or fails the extension check, one that sanitizes to a string without a
\* dot, such as '.jpg' or a non-ASCII name, either size, any outcome of the
\* backend) it returns (url, None) or (None, error_message), and a url
\* only for a file with a non-empty name, an allowed extension and a size
\* of at most 10 MiB.
C23_UploadNeverRaises ==
    [][\A r \in UploadRequests :
          (response'.op = "upload_file" /\ r.configured /\ r.attached
             /\ upload_file(r.configured, r.attached, r.file, r.backend))
          => LET uploaded == upload_file_to_ncp(r.file, r.backend)
             IN /\ ~uploaded.raised
                /\ uploaded.url # (uploaded.error # "")
                /\ uploaded.url => ValidFile(r.file)
                /\ response'.mimetype = "application/json"
    ]_vars

----------------------------------------------------------------------------
\* C24: in every reachable state a bike log whose verification_status is
\* 'rejected' has points_awarded = 0, the answer to a rejection reports
\* points_awarded 0, and points_awarded is non-zero only for a log whose
\* owner was credited for it.
C24_RejectedLogAwardsNothing ==
    /\ \A i \in 1..Len(bike_usage_logs) :
           /\ bike_usage_logs[i].verification_status = "rejected"
                 => bike_usage_logs[i].points_awarded = 0
           /\ bike_usage_logs[i].points_awarded # 0
                 => \E j \in 1..Len(rewards) :
                        /\ rewards[j].source_type = "bike_usage"
                        /\ rewards[j].source_id = i
                        /\ rewards[j].user_id = bike_usage_logs[i].user_id
    /\ (response.op = "verify_bike_log" /\ response.status = "rejected")
          => response.points_awarded = 0

----------------------------------------------------------------------------
\* the ledger rows of a source row
RewardsOf(type, id) ==
    Cardinality({j \in 1..Len(rewards) : /\ rewards[j].source_type = type
                                         /\ rewards[j].source_id = id})

\* the most that the submissions of user u can be approved with, each once
Approvable(u) ==
    LET logs == RowsOf(bike_usage_logs, LAMBDA r : r.user_id = u)
        recs == RowsOf(course_recommendations, LAMBDA r : r.user_id = u)
        most == CHOOSE p \in PointsInputs : \A q \in PointsInputs : q <= p
    IN Len(logs) * BikePoints + Len(recs) * most

\* C25: each source row triggers at most one reward even when two verify
\* requests of administrators for the same pending bike log, or the same
\* pending course recommendation, are served at the same time: in every
\* reachable state there is at most one ledger row of that source_type and
\* source_id, and the owner has been credited for the row at most once.
C25_OneRewardPerSourceRow ==
    /\ \A i \in 1..Len(bike_usage_logs) : RewardsOf("bike_usage", i) <= 1
    /\ \A i \in 1..Len(course_recommendations) :
           RewardsOf("course_recommendation", i) <= 1
    /\ \A u \in UserIds : users[u].experience_points <= Approvable(u)

----------------------------------------------------------------------------
\* C26: for every user and quiz, in every reachable state, the states
\* reached by correct attempts of the same user on the same quiz that are
\* served at the same time included, the user has at most one ledger row
\* with source_type 'quiz' and that quiz id, and has been credited for the
\* quiz at most once.
C26_OneQuizRewardPerUser ==
    \A u \in UserIds :
        /\ \A q \in QuizIds :
               Cardinality({j \in 1..Len(rewards) :
                               /\ rewards[j].user_id = u
                               /\ rewards[j].source_type = "quiz"
                               /\ rewards[j].source_id = q}) <= 1
        /\ users[u].experience_points
              <= QuizExp * Cardinality({q \in QuizIds : already_correct(u, q)})

----------------------------------------------------------------------------
\* C27: in every reachable state, the states reached by submissions of the
\* same user that are served at the same time (their count check, photo
\* uploads and insert interleaving) included, no user has more than one
\* bike log created on the same calendar day.
C27_OneBikeLogPerDay ==
    \A i, j \in 1..Len(bike_usage_logs) :
        /\ bike_usage_logs[i].user_id = bike_usage_logs[j].user_id
        /\ bike_usage_logs[i].created_at = bike_usage_logs[j].created_at
        => i = j

----------------------------------------------------------------------------
\* C28: a caller that presents no token is never issued a token whose
\* is_admin claim is true, so a client without a token and without an admin
\* row cannot come to pass the admin check.
C28_NoAdminTokenWithoutToken ==
    [][\A ep \in Called, h \in AdminHeaders :
          (/\ response'.op = ep
           /\ Call(ep, [kind |-> "none", token |-> NoToken], h))
          => \/ response'.access_token = NoToken
             \/ ~response'.access_token.is_admin]_vars

----------------------------------------------------------------------------
\* C29: the token that registration/login answers with carries the claims
\* of the users row it was issued for: its user_id is the id of the row
\* created or found for the kakao account, and its is_admin claim equals the
\* is_admin flag stored in that row, so a stored administrator who logs in
\* passes the admin check.
C29_LoginTokenCarriesRowClaims ==
    [][\A k \in UserIds, n \in Names :
          register_user(k, n, "ok")
          => /\ response'.access_token.user_id = k
             /\ k \in DOMAIN users'
             /\ response'.access_token.is_admin = is_admin(k)
             /\ is_admin(k) =>
                    admin_required([kind |-> "signed",
                                    token |-> response'.access_token],
                                   "true").code = 0]_vars

----------------------------------------------------------------------------
====
